---- MODULE Spec2Model ----
(***************************************************************************)
(* The matching engine of the semver crate (src/eval.rs): deciding whether *)
(* a parsed Version satisfies a parsed VersionReq or a single Comparator.  *)
(* The functions are pure; the state machine draws a version and a         *)
(* requirement and applies the two entry points to them.                   *)
(***************************************************************************)
EXTENDS Integers, Sequences, FiniteSets

VARIABLES ver, req, call

vars == <<ver, req, call>>

(***************************************************************************)
(* Bounds of the input space.                                              *)
(***************************************************************************)
MaxNum == 1          \* major, minor and patch range over 0..MaxNum
MaxPreLen == 2       \* longest pre-release identifier sequence
MaxRanges == 2       \* most ranges in one requirement

(***************************************************************************)
(* Data model: Identifier, Version, Comparator, VersionRange, VersionReq.  *)
(***************************************************************************)
None == -1

Some(n) == n

Numeric(n) == [kind |-> "Numeric", num |-> n, str |-> <<>>]

AlphaNumeric(s) == [kind |-> "AlphaNumeric", num |-> 0, str |-> s]

\* "alpha" as ASCII bytes
Alpha == <<97, 108, 112, 104, 97>>

Identifiers == {Numeric(1), AlphaNumeric(Alpha)}

\* the sequences of n identifiers Numeric(1)
RECURSIVE Counters(_)
Counters(n) == IF n = 0 THEN <<>> ELSE <<Numeric(1)>> \o Counters(n - 1)

\* pre fields: empty, or a name or number followed by numeric identifiers, as
\* in alpha, alpha.1, 1, 1.1
Pres ==
    {<<>>} \cup {<<h>> \o Counters(n) : h \in Identifiers, n \in 0..(MaxPreLen - 1)}

Nums == 0..MaxNum

Ops == {"Exact", "Greater", "GreaterEq", "Less", "LessEq", "Tilde", "Caret", "Wildcard"}

Versions == [major : Nums, minor : Nums, patch : Nums, pre : Pres]

\* a comparator is major, major.minor or major.minor.patch: patch is present
\* only if minor is
Comparators ==
    {c \in [op : Ops, major : Nums, minor : Nums \cup {None},
            patch : Nums \cup {None}, pre : Pres] :
        c.minor = None => c.patch = None}

Simple(cmp) == [tag |-> "Simple", left |-> cmp, right |-> cmp]

Hyphen(left, right) == [tag |-> "Hyphen", left |-> left, right |-> right]

(***************************************************************************)
(* Ordering of pre-release identifier sequences.                           *)
(***************************************************************************)
RECURSIVE BytesLess(_, _)
BytesLess(a, b) ==
    IF a = <<>> THEN b # <<>>
    ELSE IF b = <<>> THEN FALSE
    ELSE IF Head(a) # Head(b) THEN Head(a) < Head(b)
    ELSE BytesLess(Tail(a), Tail(b))

IdentifierLess(a, b) ==
    IF a.kind = "Numeric" /\ b.kind = "Numeric" THEN a.num < b.num
    ELSE IF a.kind = "Numeric" THEN TRUE
    ELSE IF b.kind = "Numeric" THEN FALSE
    ELSE BytesLess(a.str, b.str)

RECURSIVE IdentifiersLess(_, _)
IdentifiersLess(a, b) ==
    IF a = <<>> THEN b # <<>>
    ELSE IF b = <<>> THEN FALSE
    ELSE IF Head(a) # Head(b) THEN IdentifierLess(Head(a), Head(b))
    ELSE IdentifiersLess(Tail(a), Tail(b))

\* a < b on pre fields: the empty pre (a release) is above every non-empty one
PreLess(a, b) ==
    IF a = <<>> THEN FALSE
    ELSE IF b = <<>> THEN TRUE
    ELSE IdentifiersLess(a, b)

PreGreater(a, b) == PreLess(b, a)

PreGreaterEq(a, b) == ~PreLess(a, b)

(***************************************************************************)
(* src/eval.rs                                                             *)
(***************************************************************************)
matches_exact(cmp, v) ==
    IF v.major # cmp.major THEN FALSE
    ELSE IF cmp.minor # None /\ v.minor # cmp.minor THEN FALSE
    ELSE IF cmp.patch # None /\ v.patch # cmp.patch THEN FALSE
    ELSE v.pre = cmp.pre

\* matches_greater with an absent patch skipped instead of rejected
matches_greater_skips_absent(cmp, v) ==
    IF v.major # cmp.major THEN v.major > cmp.major
    ELSE IF cmp.minor = None THEN FALSE
    ELSE IF v.minor # cmp.minor THEN v.minor > cmp.minor
    ELSE IF cmp.patch # None /\ v.patch # cmp.patch THEN v.patch > cmp.patch
    ELSE PreGreater(v.pre, cmp.pre)

matches_greater(cmp, v) ==
    IF v.major # cmp.major THEN v.major > cmp.major
    ELSE IF cmp.minor = None THEN FALSE
    ELSE IF v.minor # cmp.minor THEN v.minor > cmp.minor
    ELSE IF cmp.patch = None THEN FALSE
    ELSE IF v.patch # cmp.patch THEN v.patch > cmp.patch
    ELSE PreGreater(v.pre, cmp.pre)

\* matches_less with an absent minor accepted, as matches_caret does
matches_less_accepts_absent(cmp, v) ==
    IF v.major # cmp.major THEN v.major < cmp.major
    ELSE IF cmp.minor = None THEN TRUE
    ELSE IF v.minor # cmp.minor THEN v.minor < cmp.minor
    ELSE IF cmp.patch = None THEN FALSE
    ELSE IF v.patch # cmp.patch THEN v.patch < cmp.patch
    ELSE PreLess(v.pre, cmp.pre)

matches_less(cmp, v) ==
    IF v.major # cmp.major THEN v.major < cmp.major
    ELSE IF cmp.minor = None THEN FALSE
    ELSE IF v.minor # cmp.minor THEN v.minor < cmp.minor
    ELSE IF cmp.patch = None THEN FALSE
    ELSE IF v.patch # cmp.patch THEN v.patch < cmp.patch
    ELSE PreLess(v.pre, cmp.pre)

\* matches_tilde with the minor allowed to grow
matches_tilde_minor_grows(cmp, v) ==
    IF v.major # cmp.major THEN FALSE
    ELSE IF cmp.minor # None /\ v.minor # cmp.minor THEN v.minor > cmp.minor
    ELSE IF cmp.patch # None /\ v.patch # cmp.patch THEN v.patch > cmp.patch
    ELSE PreGreaterEq(v.pre, cmp.pre)

matches_tilde(cmp, v) ==
    IF v.major # cmp.major THEN FALSE
    ELSE IF cmp.minor # None /\ v.minor # cmp.minor THEN FALSE
    ELSE IF cmp.patch # None /\ v.patch # cmp.patch THEN v.patch > cmp.patch
    ELSE PreGreaterEq(v.pre, cmp.pre)

\* matches_caret without the branches for major = 0
matches_caret_zero_as_nonzero(cmp, v) ==
    IF v.major # cmp.major THEN FALSE
    ELSE IF cmp.minor = None THEN TRUE
    ELSE IF cmp.patch = None THEN v.minor >= cmp.minor
    ELSE IF v.minor # cmp.minor THEN v.minor > cmp.minor
    ELSE IF v.patch # cmp.patch THEN v.patch > cmp.patch
    ELSE PreGreaterEq(v.pre, cmp.pre)

\* matches_caret with ver.pre > cmp.pre on the exact triple
matches_caret_strict_pre(cmp, v) ==
    IF v.major # cmp.major THEN FALSE
    ELSE IF cmp.minor = None THEN TRUE
    ELSE IF cmp.patch = None
         THEN IF cmp.major > 0 THEN v.minor >= cmp.minor
              ELSE v.minor = cmp.minor
    ELSE IF cmp.major > 0
         THEN IF v.minor # cmp.minor THEN v.minor > cmp.minor
              ELSE IF v.patch # cmp.patch THEN v.patch > cmp.patch
              ELSE PreGreater(v.pre, cmp.pre)
    ELSE IF cmp.minor > 0
         THEN IF v.minor # cmp.minor THEN FALSE
              ELSE IF v.patch # cmp.patch THEN v.patch > cmp.patch
              ELSE PreGreater(v.pre, cmp.pre)
    ELSE IF v.minor # cmp.minor \/ v.patch # cmp.patch THEN FALSE
    ELSE PreGreater(v.pre, cmp.pre)

matches_caret(cmp, v) ==
    IF v.major # cmp.major THEN FALSE
    ELSE IF cmp.minor = None THEN TRUE
    ELSE IF cmp.patch = None
         THEN IF cmp.major > 0 THEN v.minor >= cmp.minor
              ELSE v.minor = cmp.minor
    ELSE IF cmp.major > 0
         THEN IF v.minor # cmp.minor THEN v.minor > cmp.minor
              ELSE IF v.patch # cmp.patch THEN v.patch > cmp.patch
              ELSE PreGreaterEq(v.pre, cmp.pre)
    ELSE IF cmp.minor > 0
         THEN IF v.minor # cmp.minor THEN FALSE
              ELSE IF v.patch # cmp.patch THEN v.patch > cmp.patch
              ELSE PreGreaterEq(v.pre, cmp.pre)
    ELSE IF v.minor # cmp.minor \/ v.patch # cmp.patch THEN FALSE
    ELSE PreGreaterEq(v.pre, cmp.pre)

\* pre_is_compatible without the test that cmp names a pre-release
pre_is_compatible_any_pre(cmp, v) ==
    /\ cmp.major = v.major
    /\ cmp.minor = Some(v.minor)
    /\ cmp.patch = Some(v.patch)

pre_is_compatible(cmp, v) ==
    /\ cmp.major = v.major
    /\ cmp.minor = Some(v.minor)
    /\ cmp.patch = Some(v.patch)
    /\ cmp.pre # <<>>

matches_impl(cmp, v) ==
    CASE cmp.op \in {"Exact", "Wildcard"} -> matches_exact(cmp, v)
      [] cmp.op = "Greater" -> matches_greater(cmp, v)
      [] cmp.op = "GreaterEq" -> matches_exact(cmp, v) \/ matches_greater(cmp, v)
      [] cmp.op = "Less" -> matches_less(cmp, v)
      [] cmp.op = "LessEq" -> matches_exact(cmp, v) \/ matches_less(cmp, v)
      [] cmp.op = "Tilde" -> matches_tilde(cmp, v)
      [] cmp.op = "Caret" -> matches_caret(cmp, v)

\* the first closure with an exclusive upper bound of the hyphen range
range_matches_exclusive_hi(range, v) ==
    IF range.tag = "Simple" THEN matches_impl(range.left, v)
    ELSE /\ matches_exact(range.left, v) \/ matches_greater(range.left, v)
         /\ matches_less(range.right, v)

\* the closure of the first any() of matches_req
range_matches(range, v) ==
    IF range.tag = "Simple" THEN matches_impl(range.left, v)
    ELSE /\ matches_exact(range.left, v) \/ matches_greater(range.left, v)
         /\ matches_exact(range.right, v) \/ matches_less(range.right, v)

\* the closure of the second any() of matches_req
range_pre_is_compatible(range, v) ==
    IF range.tag = "Simple" THEN pre_is_compatible(range.left, v)
    ELSE pre_is_compatible(range.left, v) \/ pre_is_compatible(range.right, v)

matched_range(r, v) == \E i \in 1..Len(r) : range_matches(r[i], v)

\* matches_req without the early return on an empty requirement
matches_req_no_early_return(r, v) ==
    IF ~matched_range(r, v) THEN FALSE
    ELSE IF v.pre = <<>> THEN TRUE
    ELSE \E i \in 1..Len(r) : range_pre_is_compatible(r[i], v)

matches_req(r, v) ==
    IF Len(r) = 0 THEN TRUE
    ELSE IF ~matched_range(r, v) THEN FALSE
    ELSE IF v.pre = <<>> THEN TRUE
    ELSE \E i \in 1..Len(r) : range_pre_is_compatible(r[i], v)

\* matches_comparator without the pre-release gate
matches_comparator_no_gate(cmp, v) == matches_impl(cmp, v)

matches_comparator(cmp, v) ==
    matches_impl(cmp, v) /\ (v.pre = <<>> \/ pre_is_compatible(cmp, v))

(***************************************************************************)
(* Inputs.                                                                 *)
(***************************************************************************)
\* the bounds of a hyphen range A - B: full versions; their op is never read
HyphenBounds ==
    {c \in Comparators :
        c.op = "Exact" /\ c.patch # None /\ c.pre \in {<<>>, <<AlphaNumeric(Alpha)>>}}

\* the ranges of a requirement that lists several: lower and upper bounds on
\* major versions, >=a.0.0 or <b.0.0, each with or without a pre-release
ListedRanges ==
    {Simple(c) : c \in {d \in Comparators :
        /\ d.op \in {"GreaterEq", "Less"}
        /\ d.minor = 0 /\ d.patch = 0
        /\ d.pre \in {<<>>, <<AlphaNumeric(Alpha)>>}}}

RECURSIVE ListedReqs(_)
ListedReqs(k) ==
    IF k = 0 THEN {<<>>}
    ELSE {Append(r, x) : r \in ListedReqs(k - 1), x \in ListedRanges}

Reqs ==
    {<<>>}
    \cup {<<Simple(c)>> : c \in Comparators}
    \cup {<<Hyphen(l, r)>> : l \in HyphenBounds, r \in HyphenBounds}
    \cup UNION {ListedReqs(k) : k \in 2..MaxRanges}

NoCall == [fn |-> "none", arg |-> 0, result |-> FALSE]

Init ==
    /\ ver \in Versions
    /\ req \in Reqs
    /\ call = NoCall

\* matches_req(&req, &ver)
CallMatchesReq ==
    /\ call' = [fn |-> "matches_req", arg |-> 0, result |-> matches_req(req, ver)]
    /\ UNCHANGED <<ver, req>>

\* matches_comparator(&cmp, &ver) on a comparator of the requirement
CallMatchesComparator ==
    \E i \in 1..Len(req) :
        /\ req[i].tag = "Simple"
        /\ call' = [fn |-> "matches_comparator", arg |-> i,
                    result |-> matches_comparator(req[i].left, ver)]
        /\ UNCHANGED <<ver, req>>

Next == CallMatchesReq \/ CallMatchesComparator

Spec == Init /\ [][Next]_vars

(***************************************************************************)
(* Properties.                                                             *)
(***************************************************************************)
ReqCalled == call.fn = "matches_req"

CmpCalled == call.fn = "matches_comparator"

OneSimple == Len(req) = 1 /\ req[1].tag = "Simple"

OneHyphen == Len(req) = 1 /\ req[1].tag = "Hyphen"

Full(c) == c.minor # None /\ c.patch # None

\* (a1, a2, a3) < (b1, b2, b3) lexicographically
Lex3Less(a1, a2, a3, b1, b2, b3) ==
    \/ a1 < b1
    \/ a1 = b1 /\ a2 < b2
    \/ a1 = b1 /\ a2 = b2 /\ a3 < b3

\* version v is at or above the full comparator c on (major, minor, patch)
AtOrAbove(v, c) == ~Lex3Less(v.major, v.minor, v.patch, c.major, c.minor, c.patch)

\* version v is at or below the full comparator c on (major, minor, patch)
AtOrBelow(v, c) == ~Lex3Less(c.major, c.minor, c.patch, v.major, v.minor, v.patch)

SameTriple(c, v) == c.major = v.major /\ c.minor = v.minor /\ c.patch = v.patch

\* C1: the ranges of a requirement are conjunctive: matches_req on a
\* requirement with at least one range is true only if the version satisfies
\* every range of it.
C1_Conjunctive ==
    (ReqCalled /\ Len(req) >= 1 /\ call.result)
        => \A i \in 1..Len(req) : range_matches(req[i], ver)

\* a comparator that names a pre-release on the version's exact triple
NamesPreOn(c, v) ==
    c.major = v.major /\ c.minor # None /\ c.minor = v.minor
        /\ c.patch # None /\ c.patch = v.patch /\ c.pre # <<>>

RangeNamesPreOn(range, v) ==
    IF range.tag = "Simple" THEN NamesPreOn(range.left, v)
    ELSE NamesPreOn(range.left, v) \/ NamesPreOn(range.right, v)

C4_HyphenInclusive ==
    (ReqCalled /\ OneHyphen /\ req[1].left.pre = <<>> /\ req[1].right.pre = <<>>
        /\ ver.pre = <<>>)
        => (call.result <=> (AtOrAbove(ver, req[1].left) /\ AtOrBelow(ver, req[1].right)))

\* the version equals the upper bound of a proper interval, and matches
C4_Witness ==
    /\ ReqCalled /\ OneHyphen /\ ver.pre = <<>>
    /\ req[1].left.pre = <<>> /\ req[1].right.pre = <<>>
    /\ SameTriple(req[1].right, ver) /\ ~SameTriple(req[1].left, ver)
    /\ call.result

OneCaretRelease ==
    /\ ReqCalled /\ OneSimple /\ req[1].left.op = "Caret"
    /\ Full(req[1].left) /\ req[1].left.pre = <<>> /\ ver.pre = <<>>

\* C5 as stated: a full release caret comparator c matches a release version
\* v iff v.major = c.major and: for c.major > 0, (v.minor, v.patch) >=
\* (c.minor, c.patch); for c.major = 0 < c.minor, v.minor = c.minor and
\* v.patch >= c.patch; for c.major = c.minor = 0, v.patch = c.patch.
C5_CaretAsStated ==
    OneCaretRelease =>
        LET c == req[1].left
            v == ver
        IN  call.result <=>
              /\ v.major = c.major
              /\ c.major > 0 => ~Lex3Less(0, v.minor, v.patch, 0, c.minor, c.patch)
              /\ (c.major = 0 /\ c.minor > 0) => (v.minor = c.minor /\ v.patch >= c.patch)
              /\ (c.major = 0 /\ c.minor = 0) => v.patch = c.patch

\* C5 amended: as C5, except that for c.major = c.minor = 0 the version needs
\* v.minor = c.minor as well as v.patch = c.patch.
C5_Caret ==
    OneCaretRelease =>
        LET c == req[1].left
            v == ver
        IN  call.result <=>
              /\ v.major = c.major
              /\ c.major > 0 => ~Lex3Less(0, v.minor, v.patch, 0, c.minor, c.patch)
              /\ (c.major = 0 /\ c.minor > 0) => (v.minor = c.minor /\ v.patch >= c.patch)
              /\ (c.major = 0 /\ c.minor = 0) => (v.minor = c.minor /\ v.patch = c.patch)

\* ^0.m.p with m > 0 accepts a higher patch on the same minor
C5_Witness ==
    /\ OneCaretRelease /\ req[1].left.major = 0 /\ req[1].left.minor > 0
    /\ ver.minor = req[1].left.minor /\ ver.patch > req[1].left.patch
    /\ call.result

OneTildeRelease ==
    /\ ReqCalled /\ OneSimple /\ req[1].left.op = "Tilde"
    /\ Full(req[1].left) /\ req[1].left.pre = <<>> /\ ver.pre = <<>>

\* C6: a full release tilde comparator c matches a release version v iff
\* v.major = c.major, v.minor = c.minor and v.patch >= c.patch.
C6_Tilde ==
    OneTildeRelease =>
        (call.result <=>
            /\ ver.major = req[1].left.major
            /\ ver.minor = req[1].left.minor
            /\ ver.patch >= req[1].left.patch)

\* a higher patch on the pinned major.minor matches
C6_Witness ==
    /\ OneTildeRelease /\ ver.major = req[1].left.major
    /\ ver.minor = req[1].left.minor /\ ver.patch > req[1].left.patch
    /\ call.result

OneCaretOnTriple ==
    /\ ReqCalled /\ OneSimple /\ req[1].left.op = "Caret"
    /\ SameTriple(req[1].left, ver) /\ ver.pre # <<>>

\* C7: a pre-release version v matches a single caret comparator c on v's
\* own major.minor.patch iff c.pre is non-empty and v.pre >= c.pre.
C7_CaretPre ==
    OneCaretOnTriple =>
        (call.result <=>
            (req[1].left.pre # <<>> /\ PreGreaterEq(ver.pre, req[1].left.pre)))

\* 1.1.1-alpha.1 matches ^1.1.1-alpha
C7_Witness ==
    /\ OneCaretOnTriple
    /\ req[1].left.pre = <<AlphaNumeric(Alpha)>>
    /\ ver.pre = <<AlphaNumeric(Alpha), Numeric(1)>>
    /\ call.result

OneGreaterOrLess ==
    ReqCalled /\ OneSimple /\ req[1].left.op \in {"Greater", "Less"}

\* the outcome of step 2 with the pre fields replaced
Step2With(cpre, vpre) ==
    matched_range(<<Simple([req[1].left EXCEPT !.pre = cpre])>>,
                  [ver EXCEPT !.pre = vpre])

\* C8 as stated: for a Simple range with op Greater or Less, step 2 of
\* matches_req gives the same outcome whatever the pre fields of the
\* comparator and of the version are.
C8_PreNeverRead ==
    OneGreaterOrLess =>
        \A cpre \in Pres, vpre \in Pres :
            Step2With(cpre, vpre) = matched_range(req, ver)

\* C8 amended: for a Simple range with op Greater or Less, step 2 gives the
\* same outcome whatever the pre fields are unless the comparator has minor
\* and patch and they equal the version's major.minor.patch; on that triple
\* the outcome is ver.pre > cmp.pre for Greater and ver.pre < cmp.pre for Less.
C8_PreReadOnlyOnTie ==
    OneGreaterOrLess =>
        IF SameTriple(req[1].left, ver)
        THEN matched_range(req, ver) =
                (IF req[1].left.op = "Greater"
                 THEN PreGreater(ver.pre, req[1].left.pre)
                 ELSE PreLess(ver.pre, req[1].left.pre))
        ELSE \A cpre \in Pres, vpre \in Pres :
                Step2With(cpre, vpre) = matched_range(req, ver)

\* >1.1 against 1.1.1-alpha: the comparator has no patch, both pre fields could
\* differ, and step 2 rejects
C8_Witness ==
    /\ OneGreaterOrLess /\ req[1].left.op = "Greater"
    /\ req[1].left.minor # None /\ req[1].left.patch = None
    /\ req[1].left.major = ver.major /\ req[1].left.minor = ver.minor
    /\ ver.pre # <<>> /\ req[1].left.pre # ver.pre
    /\ ~matched_range(req, ver) /\ ~call.result

\* the comparator handed to matches_comparator
CalledCmp == req[call.arg].left

\* C9: against a release version, a Greater (Less) comparator without minor
\* matches iff v.major > c.major (<); one with minor and without patch
\* matches iff (v.major, v.minor) > (c.major, c.minor) (<).
C9_PartialGreaterLess ==
    (CmpCalled /\ CalledCmp.op \in {"Greater", "Less"} /\ ver.pre = <<>>
        /\ CalledCmp.patch = None)
        => LET c == CalledCmp
               v == ver
               gt == c.op = "Greater"
           IN  IF c.minor = None
               THEN call.result <=> (IF gt THEN v.major > c.major ELSE v.major < c.major)
               ELSE call.result <=>
                      (IF gt THEN Lex3Less(0, c.major, c.minor, 0, v.major, v.minor)
                             ELSE Lex3Less(0, v.major, v.minor, 0, c.major, c.minor))

\* >1 does not match 1.1.0
C9_Witness ==
    /\ CmpCalled /\ CalledCmp.op = "Greater" /\ CalledCmp.minor = None
    /\ ver.pre = <<>> /\ ver.major = CalledCmp.major /\ ver.minor > 0
    /\ ~call.result

\* C10: matches_comparator(c, v) equals matches_req(r, v) for the
\* requirement r whose only range is Simple(c).
C10_EntryPointsAgree ==
    CmpCalled => (call.result = matches_req(<<Simple(CalledCmp)>>, ver))

\* a partial comparator whose per-operator rule accepts a pre-release version
\* that the gate then rejects
C10_Witness ==
    /\ CmpCalled /\ ver.pre # <<>> /\ matches_impl(CalledCmp, ver)
    /\ ~call.result

====
